---- MODULE Spec2Model ----
(***************************************************************************)
(* The incremental-decoding adapter of examples/opt/model/test_text_gen.py *)
(* (WrappedInferenceFunc and the three inference_func closures built by    *)
(* get_model), the generation loop of its __main__ block, and the          *)
(* weight-decay mask of examples/opt/opt.py.                               *)
(*                                                                         *)
(* A tensor of token ids (batch x length) is a sequence of rows, each row  *)
(* a sequence of token ids.  A cache (past_key_values) is either None or   *)
(* the key/value history: per batch row, the sequence of the absorbed      *)
(* steps, each step remembering its token and the position id it was       *)
(* embedded with.                                                          *)
(***************************************************************************)
EXTENDS Integers, Sequences, FiniteSets, TLC

\* ---------------------------------------------------------------- bounds
\* longest input_ids a caller passes / longest prompt of the __main__ loop
MaxPromptLen == 2
\* token ids of prompts are 0..MaxToken
MaxToken == 1
\* token positions the callers of the adapter feed in one behaviour
MaxFed == 4
\* generate's max_length (20 in the source)
MaxLength == 3
\* iterations of the __main__ loop over prompts
MaxRuns == 2
\* parameter tensors have 0..MaxNdim dimensions
MaxNdim == 2
\* children of one container of the parameter pytree
MaxTreeWidth == 2

\* ------------------------------------------------------ program constants
\* config.pad of the OPT configuration returned by get_config (opt_model);
\* no formula below depends on its value
ConfigPad == 1
\* the batch size init_cache_dis_array is given, and of one tokenized prompt
BatchSize == 1
\* torch.manual_seed(8)
Seed == 8
\* InferenceFuncConfig.eos_token_id
EosTokenId == 2

Tokens == 0..MaxToken
ModelNames == {"gpt", "facebook/opt", "alpa/opt"}

VARIABLES
    model_name,       \* get_model's model_name: which branch built the closure
    self,             \* the WrappedInferenceFunc instance's attributes
    step_ct,          \* nonlocal step counter of the alpa/opt closure
    params,           \* params captured by the alpa/opt closure
    init_cache,       \* init_cache captured by the alpa/opt closure
    pc,               \* position of __call__: idle, loop, returned, raised
    input_ids,        \* __call__'s input_ids argument
    past_key_values,  \* __call__'s local past_key_values
    i,                \* __call__'s loop index
    ret,              \* __call__'s local ret (unbound until assigned)
    error,            \* the exception that ended the last call, if any
    trace,            \* the backend invocations attempted by the current call
    call_past,        \* the past_key_values argument the current call was given
    since_init,       \* history: successful backend invocations since the
                      \* backend last received an empty (None) cache
    held,             \* caches returned to the caller so far
    fed,              \* token positions the callers have fed so far
    gen_pc,           \* position of the __main__ loop / generate
    prompt,           \* the prompt of the generation under way
    sequences,        \* generate's running token sequence (batch x length)
    model_past,       \* generate's model_kwargs["past"]
    rng,              \* state of torch's random generator
    run_trace,        \* backend invocations of the generation under way
    runs,             \* finished generations: prompt, output, invocations
    nruns,            \* generations started so far
    prep_in,          \* arguments of prepare_inputs_for_generation
    prep_out,         \* its returned dict
    wd_params,        \* the parameter pytree given to weight_decay_mask
    wd_mask           \* the mask pytree it returned

adapter_vars == <<model_name, self, step_ct, params, init_cache, pc, input_ids,
                  past_key_values, i, ret, error, trace, call_past, since_init,
                  held, fed>>
gen_vars == <<gen_pc, prompt, sequences, model_past, rng, run_trace, runs, nruns>>
prep_vars == <<prep_in, prep_out>>
wd_vars == <<wd_params, wd_mask>>
vars == <<adapter_vars, gen_vars, prep_vars, wd_vars>>

\* ------------------------------------------------------------ data model
\* Python's None for a cache
None == [none |-> TRUE, kv |-> <<>>]
Cache(kv) == [none |-> FALSE, kv |-> kv]

\* InferenceFuncOutput(logits, past_key_values); Unbound is a local name
\* that no assignment has bound yet
InferenceFuncOutput(logits, pkv) == [bound |-> TRUE, logits |-> logits, past_key_values |-> pkv]
Unbound == [bound |-> FALSE, logits |-> <<>>, past_key_values |-> None]

\* tensors: batch x n matrices of token ids
Matrices(b, n) == [1..b -> [1..n -> Tokens]]
\* input_ids.shape[0], input_ids.shape[1]
Shape0(m) == Len(m)
Shape1(m) == Len(m[1])
\* Python's m[:, a:b] for 0 <= a <= b
ColSlice(m, a, b) == [r \in 1..Len(m) |-> SubSeq(m[r], a + 1, IF b < Len(m[r]) THEN b ELSE Len(m[r]))]
\* m[:, -1].unsqueeze(-1)
LastCol(m) == [r \in 1..Len(m) |-> <<m[r][Len(m[r])]>>]
\* np.full_like(m, v)
FullLike(m, v) == [r \in 1..Len(m) |-> [c \in 1..Len(m[r]) |-> v]]
\* torch.ones((b, n))
Ones(b, n) == [r \in 1..b |-> [c \in 1..n |-> 1]]

\* the logical step count of a cache: tokens absorbed per row
\* (past_key_values[0][0].shape[2]); 0 for None
Steps(c) == IF c.none \/ c.kv = <<>> THEN 0 ELSE Len(c.kv[1])

\* ------------------------------------------------- the models behind the
\* backends (external: GPT2LMHeadModel, OPTForCausalLM, the pipeshard
\* executable).  Each absorbs the tokens it is fed into the key/value
\* history and answers with logits that depend on the whole history.
RECURSIVE SumTok(_)
SumTok(row) == IF row = <<>> THEN 0 ELSE row[1].tok + 1 + SumTok(Tail(row))

\* the logit of a history; histories that extend one another have
\* different logits
Logit(row) == SumTok(row) + row[Len(row)].pos

\* raw_model(input_ids=..., past_key_values=...): positions continue the history
RawModel(ids, past) ==
    LET kvin(r) == IF past.none THEN <<>> ELSE past.kv[r]
        kvout == [r \in 1..Len(ids) |->
                    kvin(r) \o [c \in 1..Len(ids[r]) |->
                                  [tok |-> ids[r][c], pos |-> Len(kvin(r)) + c - 1]]]
    IN  [logits |-> [r \in 1..Len(ids) |-> Logit(kvout[r])],
         past_key_values |-> Cache(kvout)]

\* executable(params, {"input_ids", "position_ids", "cache"}): one step, the
\* position embedding taken from position_ids
Executable(p, inputs) ==
    LET kvout == [r \in 1..Len(inputs.input_ids) |->
                    inputs.cache.kv[r] \o
                    <<[tok |-> inputs.input_ids[r][1], pos |-> inputs.position_ids[r][1]]>>]
    IN  [logits |-> [r \in 1..Len(inputs.input_ids) |-> Logit(kvout[r])],
         attention_cache |-> Cache(kvout)]

\* ------------------------------------------------- get_model's closures
\* What one invocation of inference_func does.  ok = FALSE is the case in
\* which the raw model / executable raises.  The answer records what the
\* model was fed (for the trace), the output and the closure's step_ct after.
Invocation(ids, past, ok, out, sc_used, sc_after, position_ids, attention_mask) ==
    [input_ids |-> ids, past_key_values |-> past, ok |-> ok, out |-> out,
     step_ct |-> sc_used, step_ct_after |-> sc_after,
     position_ids |-> position_ids, attention_mask |-> attention_mask]

\* "gpt" branch
GptInferenceFuncCounting(ids, past, sc, ok) ==
    LET out == RawModel(ids, past)
    IN  Invocation(ids, past, ok,
                   IF ok THEN InferenceFuncOutput(out.logits, out.past_key_values) ELSE Unbound,
                   sc, sc + 1, <<>>, <<>>)

GptInferenceFunc(ids, past, sc, ok) ==
    LET out == RawModel(ids, past)
    IN  Invocation(ids, past, ok,
                   IF ok THEN InferenceFuncOutput(out.logits, out.past_key_values) ELSE Unbound,
                   sc, sc, <<>>, <<>>)

\* "facebook/opt" branch: an attention mask of past_length + 1 ones, or None
OptAttentionMask(ids, past) ==
    IF past.none THEN <<>> ELSE Ones(Shape0(ids), Steps(past) + 1)

OptInferenceFunc(ids, past, sc, ok) ==
    LET out == RawModel(ids, past)
    IN  Invocation(ids, past, ok,
                   IF ok THEN InferenceFuncOutput(out.logits, out.past_key_values) ELSE Unbound,
                   sc, sc, <<>>, OptAttentionMask(ids, past))

\* "alpa/opt" branch
AlpaNoReset(past, sc) == sc

AlpaResetStepCt(past, sc) == IF past.none THEN 0 ELSE sc

AlpaPositionId(sc) == sc + ConfigPad + 1

AlpaStepCtAfter(sc, ok) == IF ok THEN sc + 1 ELSE sc

AlpaInferenceFunc(ids, past, sc, ok) ==
    LET pkv == IF past.none THEN init_cache ELSE past
        sc0 == AlpaResetStepCt(past, sc)
        position_ids_step == FullLike(ids, AlpaPositionId(sc0))
        output == Executable(params, [input_ids |-> ids,
                                      position_ids |-> position_ids_step,
                                      cache |-> pkv])
    IN  Invocation(ids, past, ok,
                   IF ok THEN InferenceFuncOutput(output.logits, output.attention_cache)
                         ELSE Unbound,
                   sc0, AlpaStepCtAfter(sc0, ok), position_ids_step, <<>>)

\* self.inference_func(...): the closure get_model built for model_name
InferenceFunc(ids, past, sc, ok) ==
    CASE self.inference_func = "gpt" -> GptInferenceFunc(ids, past, sc, ok)
      [] self.inference_func = "facebook/opt" -> OptInferenceFunc(ids, past, sc, ok)
      [] self.inference_func = "alpa/opt" -> AlpaInferenceFunc(ids, past, sc, ok)

\* the configuration object get_model pairs with each closure
InferenceFuncConfigOf(name) ==
    IF name = "gpt" THEN "raw_model.config" ELSE "InferenceFuncConfig"

\* WrappedInferenceFunc.__init__
WrappedInferenceFunc(inference_func, config) ==
    [inference_func |-> inference_func, config |-> config, main_input_name |-> "input_ids"]

\* ------------------------------------------ WrappedInferenceFunc.__call__
\* what a call counts against the budget of fed token positions
Cost(ids) == IF Shape1(ids) = 0 THEN 1 ELSE Shape1(ids)

\* the local ret at entry: no statement before the loop binds it
RetAtEntryDefault == InferenceFuncOutput(<<>>, None)

RetAtEntry == Unbound

\* entry: bind the arguments, start the for loop
Enter(ids, past) ==
    /\ pc' = "loop"
    /\ input_ids' = ids
    /\ past_key_values' = past
    /\ call_past' = past
    /\ i' = 0
    /\ ret' = RetAtEntry
    /\ error' = "none"
    /\ trace' = <<>>
    /\ fed' = fed + Cost(ids)
    /\ UNCHANGED <<model_name, self, step_ct, params, init_cache, since_init, held>>

\* the token column the loop feeds at index i
LoopInputPrefix(ids, k) == ColSlice(ids, 0, k + 1)

LoopInput(ids, k) == ColSlice(ids, k, k + 1)

\* history variable of the backend's steps since it last saw a None cache
SinceInitAfter(past, ok) ==
    (IF past.none THEN 0 ELSE since_init) + (IF ok THEN 1 ELSE 0)

\* ret = self.inference_func(...): each iteration rebinds ret
RetKeepFirst(old, out) == IF old.bound THEN old ELSE out

AssignRet(old, out) == out

\* past_key_values = ret.past_key_values
PastNotThreaded(old, r) == old

AssignPast(old, r) == r.past_key_values

\* no try/except around the invocation: the exception leaves __call__
PcRetryAfterRaise == "loop"

PcAfterRaise == "raised"

\* one iteration of the loop whose backend invocation succeeds
LoopStep ==
    /\ pc = "loop"
    /\ i < Shape1(input_ids)
    /\ LET inv == InferenceFunc(LoopInput(input_ids, i), past_key_values, step_ct, TRUE)
       IN  /\ ret' = AssignRet(ret, inv.out)
           /\ past_key_values' = AssignPast(past_key_values, AssignRet(ret, inv.out))
           /\ step_ct' = inv.step_ct_after
           /\ trace' = Append(trace, inv)
    /\ since_init' = SinceInitAfter(past_key_values, TRUE)
    /\ i' = i + 1
    /\ UNCHANGED <<model_name, self, params, init_cache, pc, input_ids, error,
                   call_past, held, fed>>
    /\ UNCHANGED <<gen_vars, prep_vars, wd_vars>>

\* one iteration whose backend invocation raises: nothing catches it
LoopRaise ==
    /\ pc = "loop"
    /\ i < Shape1(input_ids)
    /\ LET inv == InferenceFunc(LoopInput(input_ids, i), past_key_values, step_ct, FALSE)
       IN  /\ step_ct' = inv.step_ct_after
           /\ trace' = Append(trace, inv)
    /\ since_init' = SinceInitAfter(past_key_values, FALSE)
    /\ pc' = PcAfterRaise
    /\ error' = "backend"
    /\ UNCHANGED <<model_name, self, params, init_cache, input_ids, past_key_values,
                   i, ret, call_past, held, fed>>
    /\ UNCHANGED <<gen_vars, prep_vars, wd_vars>>

\* the loop is exhausted: return ret (an unbound ret is an UnboundLocalError)
Return ==
    /\ pc = "loop"
    /\ i >= Shape1(input_ids)
    /\ IF ret.bound
         THEN /\ pc' = "returned"
              /\ error' = error
              /\ held' = held \cup {ret.past_key_values}
         ELSE /\ pc' = "raised"
              /\ error' = "UnboundLocalError"
              /\ held' = held
    /\ UNCHANGED <<model_name, self, step_ct, params, init_cache, input_ids,
                   past_key_values, i, ret, trace, call_past, since_init, fed>>
    /\ UNCHANGED <<gen_vars, prep_vars, wd_vars>>

\* ------------------------------------------------------------ the caller
\* Any caller of the adapter: a prompt with no cache, or tokens together
\* with a cache some earlier call returned.
Call ==
    /\ pc # "loop"
    /\ \E n \in 0..MaxPromptLen :
         \E ids \in Matrices(BatchSize, n) :
           \E past \in {None} \cup held :
             /\ fed + Cost(ids) <= MaxFed
             /\ Enter(ids, past)
    /\ UNCHANGED <<gen_vars, prep_vars, wd_vars>>

\* get_model(model_name, ...): the state after construction
InitAdapterFor(name) ==
    /\ model_name = name
    /\ self = WrappedInferenceFunc(model_name, InferenceFuncConfigOf(model_name))
    /\ step_ct = 0
    /\ params = "params"
    /\ init_cache = Cache([r \in 1..BatchSize |-> <<>>])
    /\ pc = "idle"
    /\ input_ids = [r \in 1..BatchSize |-> <<>>]
    /\ past_key_values = None
    /\ call_past = None
    /\ i = 0
    /\ ret = Unbound
    /\ error = "none"
    /\ trace = <<>>
    /\ since_init = 0
    /\ held = {}
    /\ fed = 0

InitAdapter == \E name \in ModelNames : InitAdapterFor(name)

\* the other programs' variables, idle
InitGenOff ==
    /\ gen_pc = "off"
    /\ prompt = <<>>
    /\ sequences = <<>>
    /\ model_past = None
    /\ rng = 0
    /\ run_trace = <<>>
    /\ runs = {}
    /\ nruns = 0

InitPrepOff ==
    /\ prep_in = [input_ids |-> <<>>, past |-> None]
    /\ prep_out = [done |-> FALSE, input_ids |-> <<>>, past_key_values |-> None]

InitWdOff ==
    /\ wd_params = <<>>
    /\ wd_mask = <<>>

Init == InitAdapter /\ InitGenOff /\ InitPrepOff /\ InitWdOff

Next == Call \/ LoopStep \/ LoopRaise \/ Return

Spec == Init /\ [][Next]_vars

\* ------------------------------------ prepare_inputs_for_generation
\* Python's truth value of `past`: None is false; a cache is a non-empty
\* sequence of per-layer entries and so is true
PyBool(past) == ~past.none

PrepareInputsAlwaysFull(ids, past) == [input_ids |-> ids, past_key_values |-> past]

PrepareInputsForGeneration(ids, past) ==
    [input_ids |-> IF PyBool(past) THEN LastCol(ids) ELSE ids,
     past_key_values |-> past]

\* the caches a backend can have returned for a prompt
PromptCaches ==
    UNION {{RawModel(m, None).past_key_values : m \in Matrices(BatchSize, n)} :
             n \in 1..MaxPromptLen}

InitPrep ==
    /\ \E n \in 0..MaxLength :
         \E ids \in Matrices(BatchSize, n) :
           \E past \in {None} \cup PromptCaches :
             /\ ~past.none => n >= 1
             /\ prep_in = [input_ids |-> ids, past |-> past]
    /\ prep_out = [done |-> FALSE, input_ids |-> <<>>, past_key_values |-> None]

Prepare ==
    /\ ~prep_out.done
    /\ LET d == PrepareInputsForGeneration(prep_in.input_ids, prep_in.past)
       IN  prep_out' = [done |-> TRUE, input_ids |-> d.input_ids,
                        past_key_values |-> d.past_key_values]
    /\ UNCHANGED <<prep_in, adapter_vars, gen_vars, wd_vars>>

InitPrepSpec == InitAdapter /\ InitGenOff /\ InitPrep /\ InitWdOff

NextPrep == Prepare

SpecPrep == InitPrepSpec /\ [][NextPrep]_vars

\* --------------------------------------- __main__ loop and generate()
\* torch.manual_seed(8)
ManualSeedKeep(r) == r

ManualSeed(r) == Seed

\* torch's generator: the state after one draw
RngNext(r) == (5 * r + 3) % 16

\* sampling the next token from the last position's logits (do_sample=True)
Sample(logits, r) == [b \in 1..Len(logits) |-> (logits[b] + r) % (EosTokenId + 1)]

\* torch.cat([input_ids, next_tokens[:, None]], dim=-1)
Cat(ids, next) == [b \in 1..Len(ids) |-> Append(ids[b], next[b])]

\* generate stops at the end-of-sequence token or at max_length
Finished(ids, next) ==
    \/ \A b \in 1..Len(next) : next[b] = EosTokenId
    \/ Shape1(ids) >= MaxLength

\* for prompt in prompts: seed, tokenize, enter generate
MainNext ==
    /\ gen_pc = "main"
    /\ pc # "loop"
    /\ nruns < MaxRuns
    /\ \E n \in 1..MaxPromptLen :
         \E p \in Matrices(BatchSize, n) :
           /\ prompt' = p
           /\ sequences' = p
    /\ rng' = ManualSeed(rng)
    /\ model_past' = None
    /\ run_trace' = <<>>
    /\ nruns' = nruns + 1
    /\ gen_pc' = "generate"
    /\ UNCHANGED <<runs, adapter_vars, prep_vars, wd_vars>>

\* one round of generate's loop up to the model call:
\* model_inputs = self.prepare_inputs_for_generation(input_ids, **model_kwargs);
\* outputs = self(**model_inputs, ...)
GenCall ==
    /\ gen_pc = "generate"
    /\ pc # "loop"
    /\ LET d == PrepareInputsForGeneration(sequences, model_past)
       IN  /\ prep_in' = [input_ids |-> sequences, past |-> model_past]
           /\ prep_out' = [done |-> TRUE, input_ids |-> d.input_ids,
                           past_key_values |-> d.past_key_values]
           /\ Enter(d.input_ids, d.past_key_values)
    /\ gen_pc' = "called"
    /\ UNCHANGED <<prompt, sequences, model_past, rng, run_trace, runs, nruns, wd_vars>>

\* the rest of the round: sample, append, keep the cache, test for the end
GenSample ==
    /\ gen_pc = "called"
    /\ pc = "returned"
    /\ LET next == Sample(ret.logits, rng)
           ids == Cat(sequences, next)
           tr == run_trace \o trace
       IN  /\ sequences' = ids
           /\ run_trace' = tr
           /\ IF Finished(ids, next)
                THEN /\ gen_pc' = "main"
                     /\ runs' = runs \cup {[prompt |-> prompt, sequences |-> ids,
                                            invocations |-> tr]}
                ELSE /\ gen_pc' = "generate"
                     /\ runs' = runs
    /\ rng' = RngNext(rng)
    /\ model_past' = ret.past_key_values
    /\ UNCHANGED <<prompt, nruns, adapter_vars, prep_vars, wd_vars>>

InitGen ==
    /\ gen_pc = "main"
    /\ prompt = <<>>
    /\ sequences = <<>>
    /\ model_past = None
    /\ rng = 0
    /\ run_trace = <<>>
    /\ runs = {}
    /\ nruns = 0

NextGen == MainNext \/ GenCall \/ GenSample \/ LoopStep \/ LoopRaise \/ Return

InitGenSpec == InitAdapter /\ InitGen /\ InitPrepOff /\ InitWdOff

SpecGen == InitGenSpec /\ [][NextGen]_vars

\* ------------------------------------------------- weight_decay_mask
\* A pytree is a leaf (a tensor, known here by its ndim) or a container of
\* pytrees; a mask pytree carries a boolean at each leaf.
Leaf(n) == [leaf |-> TRUE, ndim |-> n, kids |-> <<>>]
Node(kids) == [leaf |-> FALSE, ndim |-> 0, kids |-> kids]
MaskLeaf(v) == [leaf |-> TRUE, value |-> v, kids |-> <<>>]
MaskNode(kids) == [leaf |-> FALSE, value |-> FALSE, kids |-> kids]

\* lambda x: x.ndim > 1
DecayAtLeastOneDim(x) == x.ndim >= 1

Decay(x) == x.ndim > 1

\* jax.tree_map(lambda x: x.ndim > 1, pytree)
RECURSIVE WeightDecayMask(_)
WeightDecayMask(pytree) ==
    IF pytree.leaf
      THEN MaskLeaf(Decay(pytree))
      ELSE MaskNode([k \in 1..Len(pytree.kids) |-> WeightDecayMask(pytree.kids[k])])

SeqsUpTo(S, w) == UNION {[1..n -> S] : n \in 0..w}
Leaves == {Leaf(n) : n \in 0..MaxNdim}
Trees1 == Leaves \cup {Node(k) : k \in SeqsUpTo(Leaves, MaxTreeWidth)}
ParamTrees == Leaves \cup {Node(k) : k \in SeqsUpTo(Trees1, MaxTreeWidth)}

InitWd ==
    /\ wd_params \in ParamTrees
    /\ wd_mask = <<>>

\* optax.adamw(..., mask=weight_decay_mask) applies the mask function to params
ApplyMask ==
    /\ wd_mask = <<>>
    /\ wd_mask' = WeightDecayMask(wd_params)
    /\ UNCHANGED <<wd_params, adapter_vars, gen_vars, prep_vars>>

InitWdSpec == InitAdapterFor("gpt") /\ InitGenOff /\ InitPrepOff /\ InitWd

NextWd == ApplyMask

SpecWd == InitWdSpec /\ [][NextWd]_vars

\* ------------------------------------------------------------ claims
\* column k (0-based) of a batch x n tensor, as a batch x 1 tensor
Column(m, k) == [r \in 1..Len(m) |-> <<m[r][k + 1]>>]

LastInvocation == trace[Len(trace)]

\* C1: a call given a prompt of length N and no cache invokes the backend
\* once per position, in order 0..N-1, invocation number j with exactly the
\* token column j of the prompt; the first invocation gets cache None, each
\* later one the cache the invocation before it returned; a call that
\* returns has made exactly N invocations.
C1_OneInvocationPerPosition ==
    call_past.none =>
        /\ Len(trace) <= Shape1(input_ids)
        /\ \A j \in 1..Len(trace) :
             /\ trace[j].input_ids = Column(input_ids, j - 1)
             /\ trace[j].past_key_values =
                  IF j = 1 THEN None ELSE trace[j - 1].out.past_key_values
        /\ pc = "loop" => Len(trace) = i
        /\ pc = "returned" => Len(trace) = Shape1(input_ids) /\ Len(trace) >= 1

C1_Witness ==
    /\ pc = "returned"
    /\ call_past.none
    /\ Shape1(input_ids) = 2
    /\ input_ids[1][1] # input_ids[1][2]
    /\ Len(trace) = 2

\* C2: what a call returns is the output (logits and cache) of its last
\* backend invocation; the logits of the earlier positions are not in it.
C2_ReturnsLastOutput ==
    pc = "returned" =>
        /\ ret.bound
        /\ ret = LastInvocation.out
        /\ Len(ret.logits) = Shape0(input_ids)
        /\ \A j \in 1..(Len(trace) - 1) : trace[j].out.logits # ret.logits

C2_Witness ==
    /\ pc = "returned"
    /\ Len(trace) = 2
    /\ ret = trace[2].out
    /\ trace[1].out # ret

\* C3: with the cache's step count as the measure, a call on a prompt of
\* length N with no cache returns a cache of N steps, and a call that feeds
\* one token with a cache returned earlier returns a cache one step longer
\* than the cache passed in.
C3_StepCountGrows ==
    pc = "returned" =>
        /\ call_past.none => Steps(ret.past_key_values) = Shape1(input_ids)
        /\ (~call_past.none /\ Shape1(input_ids) = 1) =>
               Steps(ret.past_key_values) = Steps(call_past) + 1

C3_Witness ==
    /\ pc = "returned"
    /\ ~call_past.none
    /\ Steps(call_past) = 2
    /\ Shape1(input_ids) = 1
    /\ Steps(ret.past_key_values) = 3

\* the number of backend steps taken since the backend last received a None
\* cache, at the moment of the latest invocation
StepK == since_init - (IF LastInvocation.ok THEN 1 ELSE 0)

\* C4 (as stated): in the alpa/opt backend the position id fed at step k
\* since the last empty cache is k + config.pad.
C4_PositionIdIsStepPlusPad ==
    (self.inference_func = "alpa/opt" /\ trace # <<>>) =>
        LastInvocation.position_ids = FullLike(LastInvocation.input_ids, StepK + ConfigPad)

\* C4 (amended): in the alpa/opt backend the position id fed at step k since
\* the last empty cache is k + config.pad + 1, and an invocation with a None
\* cache is step 0.
C4_PositionIdIsStepPlusPadPlusOne ==
    (self.inference_func = "alpa/opt" /\ trace # <<>>) =>
        /\ LastInvocation.position_ids =
             FullLike(LastInvocation.input_ids, StepK + ConfigPad + 1)
        /\ LastInvocation.step_ct = StepK
        /\ LastInvocation.past_key_values.none =>
             /\ StepK = 0
             /\ LastInvocation.position_ids =
                  FullLike(LastInvocation.input_ids, ConfigPad + 1)

C4_Witness ==
    /\ self.inference_func = "alpa/opt"
    /\ trace # <<>>
    /\ fed = 3
    /\ Len(trace) = 1
    /\ LastInvocation.past_key_values.none
    /\ LastInvocation.ok
    /\ step_ct = 1
    /\ LastInvocation.position_ids = <<<<ConfigPad + 1>>>>

\* C5: a failing backend invocation for position i ends the call with that
\* failure: it is the last invocation of the call, exactly i + 1 invocations
\* have been attempted, the loop does not go on and nothing is returned.
C5_FailurePropagates ==
    /\ \A j \in 1..Len(trace) :
         ~trace[j].ok =>
             /\ j = Len(trace)
             /\ j = i + 1
             /\ pc = "raised"
             /\ error = "backend"
             /\ trace[j].input_ids = Column(input_ids, i)
    /\ (pc = "raised" /\ error = "backend") =>
         /\ trace # <<>>
         /\ ~LastInvocation.ok
         /\ Len(trace) = i + 1

C5_Witness ==
    /\ pc = "raised"
    /\ error = "backend"
    /\ i = 1
    /\ Len(trace) = 2
    /\ trace[1].ok
    /\ ~trace[2].ok
    /\ Shape1(input_ids) = 2

\* C10: in the alpa/opt backend the step counter behind the position id of
\* an invocation equals the step count of the cache passed to it, for every
\* sequence of adapter calls on one instance.
C10_StepCtMatchesCache ==
    self.inference_func = "alpa/opt" =>
        \A j \in 1..Len(trace) : trace[j].step_ct = Steps(trace[j].past_key_values)

\* C6: prepare_inputs_for_generation returns the full input_ids when no
\* cache is given, only the last token column (batch x 1) when a cache is
\* given, and in both cases the cache unchanged as past_key_values.
C6_PrepareInputs ==
    prep_out.done =>
        /\ prep_in.past.none => prep_out.input_ids = prep_in.input_ids
        /\ ~prep_in.past.none =>
             /\ prep_out.input_ids = Column(prep_in.input_ids, Shape1(prep_in.input_ids) - 1)
             /\ Shape0(prep_out.input_ids) = Shape0(prep_in.input_ids)
             /\ Shape1(prep_out.input_ids) = 1
        /\ prep_out.past_key_values = prep_in.past

C6_Witness ==
    /\ prep_out.done
    /\ ~prep_in.past.none
    /\ Shape1(prep_in.input_ids) = 3
    /\ prep_in.input_ids[1][2] # prep_in.input_ids[1][3]
    /\ prep_out.input_ids = <<<<prep_in.input_ids[1][3]>>>>

\* the leaves of a pytree, by their paths: the sequence of child indices
\* from the root
RECURSIVE Paths(_)
Paths(t) ==
    IF t.leaf THEN {<<>>}
    ELSE UNION {{<<k>> \o q : q \in Paths(t.kids[k])} : k \in 1..Len(t.kids)}

RECURSIVE At(_, _)
At(t, path) == IF path = <<>> THEN t ELSE At(t.kids[path[1]], Tail(path))

\* the shape of a pytree: where its containers and leaves are
RECURSIVE Structure(_)
Structure(t) ==
    IF t.leaf THEN <<"leaf">>
    ELSE <<"node", [k \in 1..Len(t.kids) |-> Structure(t.kids[k])]>>

\* C7: the weight-decay mask has the tree structure of the parameters, is
\* False at every tensor of exactly 1 dimension and True at every tensor of
\* more than 1 dimension.
C7_WeightDecayMask ==
    wd_mask # <<>> =>
        /\ Structure(wd_mask) = Structure(wd_params)
        /\ \A q \in Paths(wd_params) :
             /\ At(wd_params, q).ndim = 1 => At(wd_mask, q).value = FALSE
             /\ At(wd_params, q).ndim > 1 => At(wd_mask, q).value = TRUE

C7_Witness ==
    /\ wd_mask # <<>>
    /\ ~wd_params.leaf
    /\ Len(wd_params.kids) = 2
    /\ wd_params.kids[1] = Leaf(1)
    /\ wd_params.kids[2] = Node(<<Leaf(2), Leaf(1)>>)
    /\ wd_mask = MaskNode(<<MaskLeaf(FALSE), MaskNode(<<MaskLeaf(TRUE), MaskLeaf(FALSE)>>)>>)

\* C8: a step of the adapter (of __call__ or of
\* prepare_inputs_for_generation) leaves the adapter's inference_func, config
\* and main_input_name alone, and the closure's params and init_cache; the
\* step counter changes only in the alpa/opt backend.
C8_Frame ==
    [][/\ self' = self
       /\ model_name' = model_name
       /\ params' = params
       /\ init_cache' = init_cache
       /\ self.inference_func # "alpa/opt" => step_ct' = step_ct]_vars

C8_Witness ==
    /\ self.inference_func = "alpa/opt"
    /\ gen_pc = "called"
    /\ pc = "returned"
    /\ prep_out.done
    /\ ~prep_in.past.none
    /\ step_ct = 2
    /\ self = WrappedInferenceFunc("alpa/opt", "InferenceFuncConfig")

\* C9: with the plain backend, two generations from the same seed and the
\* same prompt make the same backend invocations and produce the same token
\* sequence, whatever the adapter was used for before either.
C9_Deterministic ==
    self.inference_func = "gpt" =>
        \A r1 \in runs : \A r2 \in runs :
            r1.prompt = r2.prompt =>
                /\ r1.sequences = r2.sequences
                /\ r1.invocations = r2.invocations

C9_Witness ==
    /\ self.inference_func = "gpt"
    /\ nruns = 2
    /\ gen_pc = "main"
    /\ pc = "returned"
    /\ Cardinality(runs) = 1
    /\ \E r \in runs : Shape1(r.sequences) > Shape1(r.prompt) /\ Len(r.invocations) >= 2

\* C11: a call whose input_ids has zero positions makes no backend
\* invocation and ends in an error (ret was never assigned) instead of
\* returning; no call returns a result without having made at least one
\* backend invocation.
C11_EmptyPromptRaises ==
    /\ (pc # "idle" /\ Shape1(input_ids) = 0) =>
         /\ trace = <<>>
         /\ ~ret.bound
         /\ pc # "returned"
         /\ pc = "raised" => error = "UnboundLocalError"
    /\ pc = "returned" =>
         /\ Len(trace) >= 1
         /\ LastInvocation.ok
    /\ (pc = "raised" /\ error = "UnboundLocalError") =>
         /\ Shape1(input_ids) = 0
         /\ trace = <<>>

C11_Witness ==
    /\ pc = "raised"
    /\ error = "UnboundLocalError"
    /\ Shape1(input_ids) = 0
    /\ ~call_past.none
    /\ held # {}
    /\ trace = <<>>
    /\ ~ret.bound

====
